---- MODULE Spec2Model ----
(***************************************************************************)
(* Model of windows_report.cpp: the seeded generator SeededRNG, the day     *)
(* simulator simulateEnergyDay, and the window procedure WndProc with the   *)
(* layout it computes in WM_PAINT and the renderers it calls.               *)
(*                                                                          *)
(* Numbers.  A uint64_t is a sequence of 8 bytes, least significant first,  *)
(* and its arithmetic is carried out byte by byte modulo 2^64.  A double    *)
(* that holds a quantity of energy is held in fixed point, in units of      *)
(* 1/Unit kWh; a share of a total (total * 0.42) is held in hundredths of   *)
(* that unit, so that a product by a decimal share is exact.                *)
(***************************************************************************)
EXTENDS Integers, Sequences, FiniteSets, TLC

VARIABLES
    build,      \* what the compiler and library made of the unspecified points
    seed0,      \* SpecRng: the argument of SeededRNG's constructor
    rng,        \* SeededRNG::state
    outs,       \* SpecRng: the values next() has returned, in order
    pc,         \* position of the program: in WM_CREATE's simulation or the message loop
    h,          \* simulateEnergyDay: loop variable of the hourly loop
    noise,      \* simulateEnergyDay: the local `noise` of the current hour
    day,        \* simulateEnergyDay: the local EnergyDay `day` being filled
    trace,      \* the calls of nextDouble01 made so far: hour, purpose, value
    g_day,      \* the global EnergyDay
    builds,     \* how many times g_day has been assigned
    client,     \* the window's client rectangle (GetClientRect)
    invalid,    \* the window has an update region (InvalidateRect)
    painted,    \* what the last WM_PAINT computed and drew
    prints,     \* how many times PrintReport has run
    runs        \* SpecRuns: the EnergyDay each run of simulateEnergyDay returned

vars == <<build, seed0, rng, outs, pc, h, noise, day, trace, g_day, builds,
          client, invalid, painted, prints, runs>>

rngVars == <<seed0, outs>>
simVars == <<pc, h, noise, trace, g_day, builds>>
winVars == <<client, invalid, painted, prints>>

-----------------------------------------------------------------------------
(* uint64_t arithmetic, byte by byte                                        *)

Byte == 0..255

\* the uint64_t with value n, for a natural n below 2^31
RECURSIVE BytesOf(_, _)
BytesOf(n, k) == IF k = 0 THEN <<>> ELSE <<n % 256>> \o BytesOf(n \div 256, k - 1)

U64(n) == BytesOf(n, 8)

\* the sum over i + j = k + 1 of x[i] * y[j]: column k of the long multiplication
RECURSIVE Column(_, _, _, _)
Column(x, y, k, i) ==
    IF i > k THEN 0 ELSE x[i] * y[k + 1 - i] + Column(x, y, k, i + 1)

\* x * y + c modulo 2^64: bytes 1..8 of the long multiplication, the carry out
\* of byte 8 dropped (unsigned wraparound)
RECURSIVE MulAddFrom(_, _, _, _)
MulAddFrom(x, y, k, carry) ==
    IF k > 8 THEN <<>>
    ELSE LET s == Column(x, y, k, 1) + carry
         IN  <<s % 256>> \o MulAddFrom(x, y, k + 1, s \div 256)

MulAdd64(x, y, c) == MulAddFrom(x, y, 1, c)

\* x - 1 modulo 2^64
RECURSIVE DecFrom(_, _)
DecFrom(x, k) ==
    IF k > 8 THEN <<>>
    ELSE IF x[k] > 0 THEN <<x[k] - 1>> \o SubSeq(x, k + 1, 8)
    ELSE <<255>> \o DecFrom(x, k + 1)

Dec64(x) == DecFrom(x, 1)

\* bitwise and of two bytes
RECURSIVE AndBits(_, _, _)
AndBits(a, b, n) ==
    IF n = 0 THEN 0
    ELSE (a % 2) * (b % 2) + 2 * AndBits(a \div 2, b \div 2, n - 1)

And64(x, y) == [k \in 1..8 |-> AndBits(x[k], y[k], 8)]

\* x >> 11: drop one byte and three more bits
Shr11(x) ==
    [k \in 1..8 |->
        IF k = 8 THEN 0
        ELSE LET lo == x[k + 1] \div 8
                 hi == IF k + 2 <= 8 THEN x[k + 2] % 8 ELSE 0
             IN  lo + 32 * hi]

\* x < y as unsigned integers, comparing from the most significant byte
RECURSIVE LessFrom(_, _, _)
LessFrom(x, y, k) ==
    IF k = 0 THEN FALSE
    ELSE IF x[k] # y[k] THEN x[k] < y[k]
    ELSE LessFrom(x, y, k - 1)

Less64(x, y) == LessFrom(x, y, 8)

-----------------------------------------------------------------------------
(* class SeededRNG                                                          *)

\* const uint64_t a = 6364136223846793005ULL = 0x5851F42D4C957F2D
LcgA == <<45, 127, 149, 76, 45, 244, 81, 88>>

\* const uint64_t c = 1ULL
LcgC == 1

\* 1ULL << 64 shifts a 64-bit value by its own width, which C++ leaves
\* undefined.  A build gives it one of these values: 0 (the bit shifted out)
\* or 1 (the count taken modulo 64, as the x86 shift instruction does).
ShiftOutcomes == {U64(0), U64(1)}

\* explicit SeededRNG(uint64_t seed) : state(seed & ((1ULL << 64) - 1))
SeededRNG(seed, shl64) == And64(seed, Dec64(shl64))

\* state = state * a + c; return state;
RngNext(state) == MulAdd64(state, LcgA, LcgC)

\* uint64_t v = next() >> 11, the numerator of the double v / 2^53
NextDouble01(state) == Shr11(RngNext(state))

-----------------------------------------------------------------------------
(* Energy quantities                                                        *)

\* one kWh in the fixed-point unit of the doubles that hold energy
Unit == 64

\* the double v / 2^53 of nextDouble01, in 1/Unit: the top six of v's 53 bits
Frac(v) == v[7] * 2 + v[6] \div 128

\* the double 0.08 is 5764607523034235 / 2^56, so v / 2^53 < 0.08 exactly when
\* v < 720575940379280 = 0x00028F5C28F5C290
P08 == <<144, 194, 245, 40, 92, 143, 2, 0>>

\* rng.nextDouble01() < 0.08
SpikeHit(v) == Less64(v, P08)

\* (rng.nextDouble01() - 0.5) * 2.0
NoiseOf(v) == (2 * Frac(v) - Unit)

\* 5.0 + rng.nextDouble01() * 10.0
SpikeOf(v) == 5 * Unit + 10 * Frac(v)

\* a band test that lets the early-morning ramp run through hour 8
\* (h <= 8 where the code has h < 8)
BaseOfRampThroughEight(hr) ==
    IF hr < 6 \/ hr >= 23 THEN (13 * Unit) \div 2
    ELSE IF hr <= 8 THEN (13 * Unit) \div 2 + 3 * Unit
    ELSE IF hr <= 18 THEN 16 * Unit
    ELSE 10 * Unit

\* the base load of hour hr: baseNight 6.5, baseNight + 3.0, baseWork 16.0,
\* baseEvening 10.0
BaseOf(hr) ==
    IF hr < 6 \/ hr >= 23 THEN (13 * Unit) \div 2
    ELSE IF hr < 8 THEN (13 * Unit) \div 2 + 3 * Unit
    ELSE IF hr <= 18 THEN 16 * Unit
    ELSE 10 * Unit

\* 7.0 * sin(k / 10.0 * pi) for k = 0..10, rounded to 1/64
SinTable == <<0, 138, 263, 362, 426, 448, 426, 362, 263, 138, 0>>

\* (h >= 8 && h <= 18) ? 7.0 * sin((h - 8.0) / 10.0 * pi) : 0.0
WaveOf(hr) == IF hr >= 8 /\ hr <= 18 THEN SinTable[hr - 8 + 1] ELSE 0

Max(a, b) == IF a < b THEN b ELSE a

\* an hour whose value is never stored: it stays as resize() made it
HourKWhUnset(hr, nz, spike) == 0

\* std::max(3.0, base + wave + noise + spike)
HourKWh(hr, nz, spike) == Max(3 * Unit, BaseOf(hr) + WaveOf(hr) + nz + spike)

\* day.hourlyKWh.resize(24)
VecSize == 24

\* for (int h = 0; h < 24; ++h): a loop that stops one hour early leaves the
\* last element as resize() made it
LoopEndShort == 24 - 1

LoopEnd == 24

RECURSIVE SumSeq(_)
SumSeq(s) == IF s = <<>> THEN 0 ELSE s[1] + SumSeq(Tail(s))

\* day.priceCZKPerKWh = 3.20, in hundredths of a crown
Price == 320

\* the readings GetLocalTime can give (SYSTEMTIME, the fields that vary here)
Clocks == {[wDay |-> d, wMonth |-> 5, wYear |-> 2024, wHour |-> hr] :
              d \in 1..2, hr \in {9, 13, 17}}

\* static EnergyDay g_day: a global, so value-initialised before main
EmptyDay == [buildingName |-> "", date |-> [wDay |-> 0, wMonth |-> 0, wYear |-> 0, wHour |-> 0],
             hourlyKWh |-> <<>>, topConsumers |-> <<>>, categoryBreakdown |-> <<>>,
             priceCZKPerKWh |-> 0]

\* cats[]: name and share, the share in percent
cats == << [name |-> "HVAC (chlazeni + VZT)", share |-> 42],
           [name |-> "Osvetleni", share |-> 22],
           [name |-> "IT + serverovna", share |-> 18],
           [name |-> "Zasuvky / kuchynky", share |-> 10],
           [name |-> "Ostatni", share |-> 8] >>

\* consumersRaw[]: name and share, the share in percent
consumersRaw == << [name |-> "Chiller / tepelne cerpadlo", share |-> 22],
                   [name |-> "VZT jednotky", share |-> 17],
                   [name |-> "Osvetleni open-space", share |-> 15],
                   [name |-> "Serverovna UPS", share |-> 14],
                   [name |-> "EV nabijeni", share |-> 10],
                   [name |-> "Vytahy", share |-> 5],
                   [name |-> "Ostatni", share |-> 17] >>

\* the categories with the total divided by 100 before it is multiplied
CategoriesOfTruncated(total) ==
    [i \in 1..Len(cats) |->
        [name |-> cats[i].name, kWh |-> ((total \div 100) * cats[i].share) * 100]]

\* cat.kWh = total * c.share for each of cats[], in hundredths of 1/Unit
CategoriesOf(total) ==
    [i \in 1..Len(cats) |-> [name |-> cats[i].name, kWh |-> total * cats[i].share]]

\* cons.kWh = total * cr.share for each of consumersRaw[], in hundredths of 1/Unit
ConsumerList(total) ==
    [i \in 1..Len(consumersRaw) |->
        [name |-> consumersRaw[i].name, kWh |-> total * consumersRaw[i].share]]

\* the comparators handed to std::sort, by name:
\*   "consumer": [](const Consumer& a, const Consumer& b) { return a.kWh > b.kWh; }
\*   "row":      [](const Row& a, const Row& b) { return a.v > b.v; }
\*   "ascending": the first with <, a comparator the code does not use
Comp(cmp, a, b) ==
    IF cmp = "consumer" THEN a.kWh > b.kWh
    ELSE IF cmp = "row" THEN a.v > b.v
    ELSE a.kWh < b.kWh

\* insert x into the sorted sequence s after every element it does not precede
RECURSIVE InsertInto(_, _, _)
InsertInto(s, x, cmp) ==
    IF s = <<>> THEN <<x>>
    ELSE IF Comp(cmp, x, s[1]) THEN <<x>> \o s
    ELSE <<s[1]>> \o InsertInto(Tail(s), x, cmp)

\* insertion sort: equivalent elements keep their order
RECURSIVE InsertionSort(_, _)
InsertionSort(s, cmp) ==
    IF s = <<>> THEN <<>>
    ELSE InsertInto(InsertionSort(SubSeq(s, 1, Len(s) - 1), cmp), s[Len(s)], cmp)

Reverse(s) == [i \in 1..Len(s) |-> s[Len(s) + 1 - i]]

\* std::sort leaves the order of equivalent elements unspecified.  A library
\* either keeps them in their order (an insertion sort on a short range) or
\* not (a partitioning sort); "reversed" is a library that ends with them in
\* the opposite order.
SortFlavours == {"kept", "reversed"}

\* std::sort(first, last, comp) as the build's library does it
StdSort(s, cmp, flavour) ==
    IF flavour = "kept" THEN InsertionSort(s, cmp)
    ELSE InsertionSort(Reverse(s), cmp)

\* the consumers sorted with the comparator turned round
SortConsumersAscending(list, flavour) == StdSort(list, "ascending", flavour)

\* std::sort(list.begin(), list.end(), ...) with the descending comparator
SortConsumers(list, flavour) == StdSort(list, "consumer", flavour)

\* day.topConsumers.assign(list.begin(), list.begin() + 6)
TopCount == 6

\* the part of simulateEnergyDay after the hourly loop: total, categories,
\* consumers, sort, top 6
Derive(d, flavour) ==
    LET total == SumSeq(d.hourlyKWh)
    IN  [d EXCEPT !.categoryBreakdown = CategoriesOf(total),
                  !.topConsumers =
                      SubSeq(SortConsumers(ConsumerList(total), flavour), 1, TopCount)]

\* SeededRNG rng(0xC0FFEEULL)
Seed == U64(12648430)

\* a build: the value it gives 1ULL << 64, and what its std::sort does with
\* equivalent elements
Builds == [shl64 : ShiftOutcomes, sort : SortFlavours]

-----------------------------------------------------------------------------
(* WM_PAINT: the layout and the renderers                                   *)

\* const int margin = 10
margin == 10

\* a layout that measures every region from the header's top, a margin
\* apart, instead of from the bottom of the region before it
ComputeRegionsFromTop(c) ==
    LET heights == <<190, 260, 250, 300, 320, 240>>
    IN  [i \in 1..6 |->
            [left |-> c.left + margin,
             top |-> c.top + margin + 40 + (i - 1) * margin,
             right |-> c.right - margin,
             bottom |-> c.top + margin + 40 + (i - 1) * margin + heights[i]]]

\* RECT headerArea .. checkArea, computed from the client rectangle
ComputeRegions(c) ==
    LET headerArea == [left |-> c.left + margin, top |-> c.top + margin + 40,
                       right |-> c.right - margin, bottom |-> c.top + margin + 40 + 190]
        lineArea   == [left |-> c.left + margin, top |-> headerArea.bottom + margin,
                       right |-> c.right - margin, bottom |-> headerArea.bottom + margin + 260]
        barArea    == [left |-> c.left + margin, top |-> lineArea.bottom + margin,
                       right |-> c.right - margin, bottom |-> lineArea.bottom + margin + 250]
        pieArea    == [left |-> c.left + margin, top |-> barArea.bottom + margin,
                       right |-> c.right - margin, bottom |-> barArea.bottom + margin + 300]
        tableArea  == [left |-> c.left + margin, top |-> pieArea.bottom + margin,
                       right |-> c.right - margin, bottom |-> pieArea.bottom + margin + 320]
        checkArea  == [left |-> c.left + margin, top |-> tableArea.bottom + margin,
                       right |-> c.right - margin, bottom |-> tableArea.bottom + margin + 240]
    IN  <<headerArea, lineArea, barArea, pieArea, tableArea, checkArea>>

\* DrawHeader's scan: double peak = 0.0; int peakHour = 0; for (i...)
\* if (hourlyKWh[i] > peak) {...}
\* the scan from element i on, with the peak and its hour so far
RECURSIVE PeakScan(_, _, _, _)
PeakScan(s, i, peak, peakHour) ==
    IF i > Len(s) THEN [peak |-> peak, peakHour |-> peakHour]
    ELSE IF s[i] > peak THEN PeakScan(s, i + 1, s[i], i - 1)
    ELSE PeakScan(s, i + 1, peak, peakHour)

\* a / b in double arithmetic for a >= 0: a finite quotient q, or, when b is
\* 0, infinity or NaN
Quot(a, b) == IF b = 0 THEN [finite |-> FALSE, q |-> 0]
              ELSE [finite |-> TRUE, q |-> a \div b]

\* DrawHeader: total, cost = total * price, peak and peak hour
DrawHeader(d) ==
    LET total == SumSeq(d.hourlyKWh)
        scan  == PeakScan(d.hourlyKWh, 1, 0, 0)
    IN  [total |-> total, cost |-> total * d.priceCZKPerKWh,
         peak |-> scan.peak, peakHour |-> scan.peakHour]

\* double maxV = 10.0; for (double v : hourlyKWh) if (v > maxV) maxV = v;
RECURSIVE MaxFrom(_, _)
MaxFrom(s, m) == IF s = <<>> THEN m ELSE MaxFrom(Tail(s), IF s[1] > m THEN s[1] ELSE m)

\* ceil(maxV / 5.0) * 5.0
CeilTo5(v) == ((v + 5 * Unit - 1) \div (5 * Unit)) * 5 * Unit

\* a marker scan that moves to every hour that is not below the peak so far
\* (>= where the code has >)
RECURSIVE LinePeakScanLast(_, _, _, _)
LinePeakScanLast(s, i, peak, peakHour) ==
    IF i > Len(s) THEN [peak |-> peak, peakHour |-> peakHour]
    ELSE IF s[i] >= peak THEN LinePeakScanLast(s, i + 1, s[i], i - 1)
    ELSE LinePeakScanLast(s, i + 1, peak, peakHour)

\* DrawLineChart's own scan for the peak marker: double peak = 0; int
\* peakHour = 0; for (int i...) if (hourlyKWh[i] > peak) {...}
RECURSIVE LinePeakScan(_, _, _, _)
LinePeakScan(s, i, peak, peakHour) ==
    IF i > Len(s) THEN [peak |-> peak, peakHour |-> peakHour]
    ELSE IF s[i] > peak THEN LinePeakScan(s, i + 1, s[i], i - 1)
    ELSE LinePeakScan(s, i + 1, peak, peakHour)

\* DrawLineChart: the axis maximum and the peak marker
DrawLineChart(d) ==
    LET scan == LinePeakScan(d.hourlyKWh, 1, 0, 0)
    IN  [yMax |-> CeilTo5(MaxFrom(d.hourlyKWh, 10 * Unit)),
         peak |-> scan.peak, peakHour |-> scan.peakHour]

\* DrawBarChart: maxV = max(1.0, kWh...), and per consumer frac = kWh / maxV,
\* in thousandths
DrawBarChart(d) ==
    LET maxV == MaxFrom([i \in 1..Len(d.topConsumers) |-> d.topConsumers[i].kWh], 100 * Unit)
    IN  [maxV |-> maxV,
         rows |-> [i \in 1..Len(d.topConsumers) |->
                     [name |-> d.topConsumers[i].name,
                      frac |-> Quot(1000 * d.topConsumers[i].kWh, maxV)]]]

\* DrawPieChart: total = sum of the categories' kWh, and per category
\* pct = 100.0 * cat.kWh / total, printed with no decimals
DrawPieChart(d) ==
    LET total == SumSeq([i \in 1..Len(d.categoryBreakdown) |-> d.categoryBreakdown[i].kWh])
    IN  [total |-> total,
         slices |-> [i \in 1..Len(d.categoryBreakdown) |->
                       [name |-> d.categoryBreakdown[i].name,
                        pattern |-> (i - 1) % 4,
                        pct |-> Quot(100 * d.categoryBreakdown[i].kWh, total)]]]

\* if (rows.size() > 10) rows.resize(10)
TableRows == 10

\* DrawTable: avg = total / 24.0 (total kept, the comparison done on total),
\* the rows sorted descending by v and cut to 10, each with its "peak" note:
\* r.v > avg * 1.5, that is 24 * v * 2 > total * 3
DrawTable(d, flavour) ==
    LET total  == SumSeq(d.hourlyKWh)
        rows   == [i \in 1..Len(d.hourlyKWh) |-> [hour |-> i - 1, v |-> d.hourlyKWh[i]]]
        sorted == StdSort(rows, "row", flavour)
        kept   == IF Len(sorted) > TableRows THEN SubSeq(sorted, 1, TableRows) ELSE sorted
    IN  [total |-> total,
         rows |-> [i \in 1..Len(kept) |->
                     [hour |-> kept[i].hour, v |-> kept[i].v,
                      cost |-> kept[i].v * d.priceCZKPerKWh,
                      note |-> IF 48 * kept[i].v > 3 * total THEN "peak" ELSE ""]]]

\* a night sum that stops after hour 4 (i < 5 where the code has i < 6)
NightSumOfFive(s) == SumSeq(SubSeq(s, 1, IF Len(s) < 5 THEN Len(s) ELSE 5))

\* for (int i = 0; i < 6 && i < size; ++i) nightAvg += hourlyKWh[i]
NightSum(s) == SumSeq(SubSeq(s, 1, IF Len(s) < 6 THEN Len(s) ELSE 6))


\* DrawChecklist: avg = total / 24.0, peak, nightAvg = (sum of hours 0..5) / 6.0,
\* nightHigh = nightAvg > avg * 0.75 (16 * night sum > 3 * total), the extreme
\* peak test peak > avg * 2.0 (12 * peak > total), and the five alerts
DrawChecklist(d) ==
    LET total     == SumSeq(d.hourlyKWh)
        peak      == MaxFrom(d.hourlyKWh, 0)
        night     == NightSum(d.hourlyKWh)
        nightHigh == 16 * night > 3 * total
    IN  [total |-> total,
         alerts |-> << [text |-> "Nocni zatez v norme", ok |-> ~nightHigh],
                       [text |-> "Zadna extremni spicka (> 2.0x prumer)", ok |-> ~(12 * peak > total)],
                       [text |-> "Krivka bez vypadku (24/24)", ok |-> Len(d.hourlyKWh) = 24],
                       [text |-> "Doporuceni: zkontrolovat HVAC plan", ok |-> TRUE],
                       [text |-> "Doporuceni: audit osvetleni (zony)", ok |-> TRUE] >>]

\* no WM_PAINT has been handled yet
NoPaint == [done |-> FALSE]

\* what one WM_PAINT computes: the six regions, and each renderer's figures
\* from the EnergyDay it reads (`read`); `client` is what GetClientRect gave
Render(d, c, flavour) ==
    [done |-> TRUE,
     read |-> d,
     client |-> c,
     regions |-> ComputeRegions(c),
     header |-> DrawHeader(d),
     line |-> DrawLineChart(d),
     bar |-> DrawBarChart(d),
     pie |-> DrawPieChart(d),
     table |-> DrawTable(d, flavour),
     check |-> DrawChecklist(d)]

-----------------------------------------------------------------------------
(* Spec: the program.  WM_CREATE runs simulateEnergyDay, one call of the    *)
(* generator at a time, and assigns g_day; then the message loop delivers   *)
(* WM_SIZE, WM_PAINT, WM_COMMAND and WM_DESTROY.                            *)

\* how many times the model lets PrintReport run
MaxPrints == 2

\* the client widths and heights WM_SIZE can bring
ClientWidths == {0, 15, 20, 600, 1024}
ClientHeights == {0, 1100, 1700}

\* the control ids WM_COMMAND can carry: the print button is 1
CommandIds == {1, 2}

Init ==
    /\ build \in Builds
    /\ seed0 = Seed
    /\ rng = U64(0)
    /\ outs = <<>>
    /\ pc = "start"
    /\ h = 0
    /\ noise = 0
    /\ day = EmptyDay
    /\ trace = <<>>
    /\ g_day = EmptyDay
    /\ builds = 0
    /\ client = [left |-> 0, top |-> 0, right |-> 0, bottom |-> 0]
    /\ invalid = FALSE
    /\ painted = NoPaint
    /\ prints = 0
    /\ runs = <<>>

\* simulateEnergyDay up to the loop: the generator, the name, the date, the
\* price, the 24 zeroed hours
SimBegin ==
    /\ pc = "start"
    /\ \E st \in Clocks :
          day' = [buildingName |-> "Kancelarska budova A (mensi)",
                  date |-> st,
                  hourlyKWh |-> [i \in 1..VecSize |-> 0],
                  topConsumers |-> <<>>,
                  categoryBreakdown |-> <<>>,
                  priceCZKPerKWh |-> Price]
    /\ rng' = SeededRNG(Seed, build.shl64)
    /\ h' = 0
    /\ pc' = IF 0 < LoopEnd THEN "noise" ELSE "derive"
    /\ UNCHANGED <<build, rngVars, noise, trace, g_day, builds, winVars, runs>>

\* day.hourlyKWh[h] = kWh; ++h; and the loop test
StoreHour(spike) ==
    /\ day' = [day EXCEPT !.hourlyKWh[h + 1] = HourKWh(h, noise, spike)]
    /\ h' = h + 1
    /\ pc' = IF h + 1 < LoopEnd THEN "noise" ELSE "derive"

\* double noise = (rng.nextDouble01() - 0.5) * 2.0
DrawNoise ==
    /\ pc = "noise"
    /\ rng' = RngNext(rng)
    /\ noise' = NoiseOf(NextDouble01(rng))
    /\ trace' = Append(trace, [hour |-> h, what |-> "noise", v |-> NextDouble01(rng)])
    /\ pc' = "spike"
    /\ UNCHANGED <<build, rngVars, h, day, g_day, builds, winVars, runs>>

\* the draw that is compared with 0.08 sends the hour to the spike's draw
\* whatever it is
SpikeBranchAlways(v) == "size"

\* (rng.nextDouble01() < 0.08) ? ... : 0.0 -- where the hour goes next
SpikeBranch(v) == IF SpikeHit(v) THEN "size" ELSE "store"

\* rng.nextDouble01() < 0.08, the condition of the spike
DrawSpikeDecision ==
    /\ pc = "spike"
    /\ rng' = RngNext(rng)
    /\ trace' = Append(trace, [hour |-> h, what |-> "decision", v |-> NextDouble01(rng)])
    /\ IF SpikeBranch(NextDouble01(rng)) = "size"
          THEN /\ pc' = "size"
               /\ UNCHANGED <<h, day>>
          ELSE StoreHour(0)
    /\ UNCHANGED <<build, rngVars, noise, g_day, builds, winVars, runs>>

\* 5.0 + rng.nextDouble01() * 10.0, the spike's size
DrawSpikeSize ==
    /\ pc = "size"
    /\ rng' = RngNext(rng)
    /\ trace' = Append(trace, [hour |-> h, what |-> "size", v |-> NextDouble01(rng)])
    /\ StoreHour(SpikeOf(NextDouble01(rng)))
    /\ UNCHANGED <<build, rngVars, noise, g_day, builds, winVars, runs>>

\* the rest of simulateEnergyDay and of WM_CREATE: total, categories,
\* consumers, g_day = the day returned, the print button
SimFinish ==
    /\ pc = "derive"
    /\ g_day' = Derive(day, build.sort)
    /\ builds' = builds + 1
    /\ pc' = "idle"
    /\ UNCHANGED <<build, rngVars, rng, h, noise, day, trace, winVars, runs>>

\* case WM_SIZE: InvalidateRect(hwnd, NULL, TRUE)
WM_SIZE ==
    /\ pc = "idle"
    /\ \E w \in ClientWidths, ht \in ClientHeights :
          client' = [left |-> 0, top |-> 0, right |-> w, bottom |-> ht]
    /\ invalid' = TRUE
    /\ UNCHANGED <<build, rngVars, rng, h, noise, day, trace, pc, g_day, builds,
                   painted, prints, runs>>

\* a WM_PAINT whose table renderer sorts g_day.hourlyKWh itself instead of a copy
WM_PAINT_SortsInPlace ==
    /\ pc = "idle"
    /\ invalid
    /\ painted' = Render(g_day, client, build.sort)
    /\ invalid' = FALSE
    /\ g_day' = [g_day EXCEPT !.hourlyKWh =
                    [i \in 1..Len(g_day.hourlyKWh) |->
                        StdSort([j \in 1..Len(g_day.hourlyKWh) |->
                                    [hour |-> j - 1, v |-> g_day.hourlyKWh[j]]],
                                "row", build.sort)[i].v]]
    /\ UNCHANGED <<build, rngVars, rng, h, noise, day, trace, pc, builds,
                   client, prints, runs>>

\* case WM_PAINT: BeginPaint, the six regions, the six renderers, EndPaint
WM_PAINT ==
    /\ pc = "idle"
    /\ invalid
    /\ painted' = Render(g_day, client, build.sort)
    /\ invalid' = FALSE
    /\ UNCHANGED <<build, rngVars, rng, h, noise, day, trace, pc, g_day, builds,
                   client, prints, runs>>

\* case WM_COMMAND: if (LOWORD(wParam) == 1) PrintReport(), which shows a
\* message box and writes nothing
WM_COMMAND ==
    /\ pc = "idle"
    /\ \E id \in CommandIds :
          IF id = 1
             THEN prints < MaxPrints /\ prints' = prints + 1
             ELSE prints' = prints
    /\ UNCHANGED <<build, rngVars, rng, h, noise, day, trace, pc, g_day, builds,
                   client, invalid, painted, runs>>

\* case WM_DESTROY: PostQuitMessage(0), and the message loop ends
WM_DESTROY ==
    /\ pc = "idle"
    /\ pc' = "destroyed"
    /\ UNCHANGED <<build, rngVars, rng, h, noise, day, trace, g_day, builds,
                   winVars, runs>>

Next ==
    \/ SimBegin
    \/ DrawNoise
    \/ DrawSpikeDecision
    \/ DrawSpikeSize
    \/ SimFinish
    \/ WM_SIZE
    \/ WM_PAINT
    \/ WM_COMMAND
    \/ WM_DESTROY

Spec == Init /\ [][Next]_vars

----
(* Properties of Spec                                                       *)

\* g_day has been assigned by WM_CREATE
Built == builds >= 1

\* the hour's draws are over after entry e of the trace
EndsHour(e) == e.what = "size" \/ (e.what = "decision" /\ ~SpikeHit(e.v))

\* C2: the generator is consumed in a fixed order: for each hour 0..23 in
\* ascending order one draw for the noise, then one for the spike decision,
\* and a third for the spike's size exactly when the decision draw is < 0.08;
\* nothing else draws (the generator's state is always that of the last draw
\* listed), so a simulation makes between 48 and 72 draws and an hour's first
\* draw comes after the previous hour's last.
C2_DrawOrder ==
    /\ \A i \in 1..Len(trace) :
          LET e == trace[i]
          IN  /\ e.hour \in 0..23
              /\ i = 1 => e.hour = 0 /\ e.what = "noise"
              /\ i > 1 =>
                    LET p == trace[i - 1]
                    IN  /\ e.what = "noise" => EndsHour(p) /\ e.hour = p.hour + 1
                        /\ e.what = "decision" => p.what = "noise" /\ e.hour = p.hour
                        /\ e.what = "size" =>
                              p.what = "decision" /\ SpikeHit(p.v) /\ e.hour = p.hour
                        /\ (p.what = "decision" /\ SpikeHit(p.v)) => e.what = "size"
    /\ (pc # "start" /\ trace = <<>>) => rng = SeededRNG(Seed, build.shl64)
    /\ trace # <<>> => trace[Len(trace)].v = Shr11(rng)
    /\ pc \in {"derive", "idle", "destroyed"} =>
          /\ Len(trace) >= 48 /\ Len(trace) <= 72
          /\ trace[Len(trace)].hour = 23 /\ EndsHour(trace[Len(trace)])

\* a finished simulation in which some hours drew a spike size and some did not
C2_Witness ==
    /\ pc = "idle"
    /\ \E i \in 1..Len(trace) : trace[i].what = "size"
    /\ \E i \in 1..Len(trace) : trace[i].what = "decision" /\ ~SpikeHit(trace[i].v)

\* a value v of nextDouble01 whose top six bits are f
DrawOf(f) == <<0, 0, 0, 0, 0, (f % 2) * 128, f \div 2, 0>>

\* C3: the EnergyDay that simulateEnergyDay returns has exactly 24 hourly
\* values and each of them is at least 3.0.
\* It holds of the day built, and of the value of an hour for every hour and
\* every value the noise and spike draws can take (a fact about HourKWh
\* alone, evaluated once, before the simulation starts).
C3_HourlyShape ==
    /\ Built =>
          /\ Len(g_day.hourlyKWh) = 24
          /\ \A i \in 1..Len(g_day.hourlyKWh) : g_day.hourlyKWh[i] >= 3 * Unit
    /\ pc = "start" =>
          \A hr \in 0..23, f \in 0..(Unit - 1) :
             /\ HourKWh(hr, NoiseOf(DrawOf(f)), 0) >= 3 * Unit
             /\ \A g \in 0..(Unit - 1) :
                   HourKWh(hr, NoiseOf(DrawOf(f)), SpikeOf(DrawOf(g))) >= 3 * Unit

\* a day has been built, spikes included
C3_Witness ==
    /\ Built
    /\ Len(g_day.hourlyKWh) = 24
    /\ \E i \in 1..Len(trace) : trace[i].what = "size"

\* C4: topConsumers has exactly 6 entries, in non-increasing order of kWh,
\* and they are the six highest of the seven raw consumers: the one left out
\* has a kWh no greater than any kept.
C4_TopSix ==
    Built =>
        LET raw == ConsumerList(SumSeq(g_day.hourlyKWh))
            top == g_day.topConsumers
        IN  /\ Len(top) = 6
            /\ \A i \in 1..(Len(top) - 1) : top[i].kWh >= top[i + 1].kWh
            /\ \E j \in 1..7 :
                  /\ {top[k] : k \in 1..Len(top)} = {raw[i] : i \in (1..7) \ {j}}
                  /\ \A k \in 1..Len(top) : raw[j].kWh <= top[k].kWh

\* a built day whose top list starts with the 0.22 share and leaves out the 0.05 one
C4_Witness ==
    /\ Built
    /\ Len(g_day.topConsumers) = 6
    /\ g_day.topConsumers[1].name = "Chiller / tepelne cerpadlo"
    /\ \A k \in 1..6 : g_day.topConsumers[k].name # "Vytahy"

\* the place of the consumer called n in the sequence s (0 when absent)
PlaceOf(s, n) == IF \E k \in 1..Len(s) : s[k].name = n
                 THEN CHOOSE k \in 1..Len(s) : s[k].name = n
                 ELSE 0

\* C5 (as claimed): ties in topConsumers are broken by the raw list's order:
\* of two raw consumers with equal kWh, as the two 0.17 shares "VZT jednotky"
\* and "Ostatni" always are, the earlier in the raw list is the earlier in
\* topConsumers.
C5_TiesKeepListOrder ==
    Built =>
        LET raw == ConsumerList(SumSeq(g_day.hourlyKWh))
            top == g_day.topConsumers
        IN  \A i, j \in 1..7 :
               (i < j /\ raw[i].kWh = raw[j].kWh
                  /\ PlaceOf(top, raw[i].name) > 0 /\ PlaceOf(top, raw[j].name) > 0)
               => PlaceOf(top, raw[i].name) < PlaceOf(top, raw[j].name)

\* C6: the simulator produces exactly 5 categories, in the declared order,
\* each with kWh = total * share for the shares 0.42, 0.22, 0.18, 0.10, 0.08,
\* so that they sum to total = sum(hourlyKWh); for total = 100 the values are
\* exactly 42, 22, 18, 10, 8.
C6_Categories ==
    /\ Built =>
          LET total == SumSeq(g_day.hourlyKWh)
              cb    == g_day.categoryBreakdown
              pct   == <<42, 22, 18, 10, 8>>
          IN  /\ Len(cb) = 5
              /\ [i \in 1..5 |-> cb[i].name] =
                    <<"HVAC (chlazeni + VZT)", "Osvetleni", "IT + serverovna",
                      "Zasuvky / kuchynky", "Ostatni">>
              /\ \A i \in 1..5 : cb[i].kWh = total * pct[i]
              /\ SumSeq([i \in 1..5 |-> cb[i].kWh]) = 100 * total
    /\ [i \in 1..5 |-> CategoriesOf(100 * Unit)[i].kWh] =
          <<42 * Unit * 100, 22 * Unit * 100, 18 * Unit * 100, 10 * Unit * 100,
            8 * Unit * 100>>

\* a built day with its five categories, HVAC the largest
C6_Witness ==
    /\ Built
    /\ Len(g_day.categoryBreakdown) = 5
    /\ g_day.categoryBreakdown[1].kWh > g_day.categoryBreakdown[2].kWh

\* C7: the six regions of a WM_PAINT are stacked top to bottom and never
\* overlap: each region's top is the previous region's bottom plus the
\* margin, the heights are 190, 260, 250, 300, 320, 240, and every region is
\* clientWidth - 2 * margin wide, whatever the client width and height.
C7_Layout ==
    painted.done =>
        LET r == painted.regions
            c == painted.client
            heights == <<190, 260, 250, 300, 320, 240>>
        IN  /\ Len(r) = 6
            /\ \A i \in 2..6 : r[i].top = r[i - 1].bottom + 10
            /\ \A i \in 1..6 : r[i].bottom - r[i].top = heights[i]
            /\ \A i \in 1..6 : r[i].right - r[i].left = (c.right - c.left) - 2 * 10
            /\ \A i, j \in 1..6 : i < j => r[i].bottom < r[j].top
            /\ \A i \in 1..6 : r[i].top >= c.top

\* a paint of a 600 wide client and a paint of a client narrower than two margins
C7_Witness ==
    /\ painted.done
    /\ painted.client.right = 15
    /\ painted.regions[6].bottom > painted.client.bottom

\* C8: the EnergyDay snapshot is created exactly once and never changes after:
\* no paint, resize or print command, no renderer and not PrintReport changes
\* a field of it, and the renderers of every paint read that same snapshot.
C8_SnapshotImmutable ==
    [][ /\ builds' <= 1
        /\ Built => (builds' = builds /\ g_day' = g_day)
        /\ ~Built' => g_day' = EmptyDay
        /\ painted'.done => (Built' /\ painted'.read = g_day')
      ]_vars

\* a built day that has been painted, resized and printed
C8_Witness ==
    /\ Built
    /\ painted.done
    /\ painted.read = g_day
    /\ prints >= 1
    /\ client.right # painted.client.right

\* C10: the total is strictly positive wherever it is used: when the category
\* and consumer splits are computed, when the pie fractions divide by it and
\* when the checklist averages are formed; no division by a zero total is
\* performed and no zero-total day is rendered.
C10_TotalPositive ==
    /\ pc = "derive" => SumSeq(day.hourlyKWh) > 0
    /\ Built => SumSeq(g_day.hourlyKWh) > 0
    /\ painted.done =>
          /\ painted.header.total > 0
          /\ painted.pie.total > 0
          /\ \A i \in 1..Len(painted.pie.slices) : painted.pie.slices[i].pct.finite
          /\ \A i \in 1..Len(painted.bar.rows) : painted.bar.rows[i].frac.finite
          /\ painted.table.total > 0
          /\ painted.check.total > 0

\* a paint whose pie chart divided by the total of the categories
C10_Witness ==
    /\ painted.done
    /\ Len(painted.pie.slices) = 5
    /\ painted.pie.slices[1].pct = [finite |-> TRUE, q |-> 42]

\* the noise drawn for hour hr, and the spike drawn for it (0.0 when the
\* decision draw sent the hour past the spike), as the trace records them
NoiseAt(hr) ==
    NoiseOf(trace[CHOOSE i \in 1..Len(trace) :
                     trace[i].hour = hr /\ trace[i].what = "noise"].v)

SpikeAt(hr) ==
    IF \E i \in 1..Len(trace) : trace[i].hour = hr /\ trace[i].what = "size"
    THEN SpikeOf(trace[CHOOSE i \in 1..Len(trace) :
                          trace[i].hour = hr /\ trace[i].what = "size"].v)
    ELSE 0

\* the base loads as the bands give them, hour by hour from hour 0: 6.5 for
\* hours 0..5, 9.5 for 6..7, 16.0 for 8..18, 10.0 for 19..22, 6.5 for 23
BandBase ==
    [i \in 1..24 |->
        IF i - 1 \in (0..5) \cup {23} THEN (13 * Unit) \div 2
        ELSE IF i - 1 \in 6..7 THEN (19 * Unit) \div 2
        ELSE IF i - 1 \in 8..18 THEN 16 * Unit
        ELSE 10 * Unit]

\* C11: every hour 0..23 gets exactly one base load, determined only by its
\* band: 6.5 for hours 0..5 and 23, 9.5 for hours 6..7, 16.0 for hours 8..18,
\* 10.0 for hours 19..22, and the wave term is zero for every hour outside
\* 8..18; hour 0 has base 6.5 and hour 12 has base 16.0.
\* It holds of the function that gives the base, and of every hour the
\* simulation has stored: the value stored is the band's base, plus the wave
\* inside 8..18 and nothing outside, plus the hour's noise and spike.
C11_BaseByBand ==
    /\ \A hr \in 0..23 :
          /\ BaseOf(hr) = BandBase[hr + 1]
          /\ hr \notin 8..18 => WaveOf(hr) = 0
    /\ BaseOf(0) = (13 * Unit) \div 2
    /\ BaseOf(12) = 16 * Unit
    /\ \A hr \in 0..(h - 1) :
          day.hourlyKWh[hr + 1] =
             Max(3 * Unit,
                 BandBase[hr + 1] + (IF hr \in 8..18 THEN WaveOf(hr) ELSE 0)
                    + NoiseAt(hr) + SpikeAt(hr))
    /\ Built => g_day.hourlyKWh = day.hourlyKWh

\* a built day whose hour 0 is the night base and whose hour 12 is the
\* workday base, each with its own noise and spike and hour 12 with its wave
C11_Witness ==
    /\ Built
    /\ h = 24
    /\ g_day.hourlyKWh[1] = (13 * Unit) \div 2 + NoiseAt(0) + SpikeAt(0)
    /\ g_day.hourlyKWh[13] = 16 * Unit + WaveOf(12) + NoiseAt(12) + SpikeAt(12)
    /\ g_day.hourlyKWh[9] # g_day.hourlyKWh[8]

-----------------------------------------------------------------------------
(* SpecPaint: the message loop over a g_day whose hourly values are given.  *)
(* The renderers read g_day and nothing else, so what they compute is a     *)
(* function of it; here g_day is drawn from a set of days with equal hours, *)
(* with values on the thresholds of the checklist and of the table's note,  *)
(* and with sample counts other than 24.                                    *)

\* an hourly vector of n samples: `night` in hours 0..5, `rest` in the later
\* hours, and `pv` at the hours in `peaks`
Profile(n, night, rest, peaks, pv) ==
    [i \in 1..n |->
        IF i - 1 \in peaks THEN pv ELSE IF i - 1 < 6 THEN night ELSE rest]

\* the hourly vectors tried, every value at least the simulator's floor of 3.0
Profiles ==
    { Profile(24, 4 * Unit, 13 * Unit, {}, 0),
      Profile(24, 9 * Unit, 13 * Unit, {}, 0),
      Profile(24, 10 * Unit, 13 * Unit, {}, 0),
      Profile(24, 11 * Unit, 11 * Unit, {9}, 23 * Unit),
      Profile(24, 11 * Unit, 11 * Unit, {9}, 24 * Unit),
      Profile(24, 4 * Unit, 13 * Unit, {9, 14}, 40 * Unit),
      Profile(24, 4 * Unit, 13 * Unit, {3, 20}, 20 * Unit),
      Profile(24, 6 * Unit, 6 * Unit, 8..15, 12 * Unit),
      [i \in 1..24 |-> 5 * Unit + ((7 * i) % 24) * (Unit \div 2)],
      Profile(23, 4 * Unit, 13 * Unit, {9}, 20 * Unit),
      Profile(25, 4 * Unit, 13 * Unit, {9}, 20 * Unit),
      Profile(5, 4 * Unit, 13 * Unit, {}, 0) }

\* the EnergyDay with the hourly vector hk, the rest of it as
\* simulateEnergyDay makes it
DayOf(hk, flavour) ==
    Derive([buildingName |-> "Kancelarska budova A (mensi)",
            date |-> [wDay |-> 1, wMonth |-> 5, wYear |-> 2024, wHour |-> 9],
            hourlyKWh |-> hk,
            topConsumers |-> <<>>,
            categoryBreakdown |-> <<>>,
            priceCZKPerKWh |-> Price],
           flavour)

PaintInit ==
    /\ build \in {b \in Builds : b.shl64 = U64(0)}
    /\ seed0 = Seed
    /\ rng = U64(0)
    /\ outs = <<>>
    /\ pc = "idle"
    /\ h = 0
    /\ noise = 0
    /\ day = EmptyDay
    /\ trace = <<>>
    /\ g_day \in {DayOf(hk, build.sort) : hk \in Profiles}
    /\ builds = 1
    /\ client = [left |-> 0, top |-> 0, right |-> 0, bottom |-> 0]
    /\ invalid = FALSE
    /\ painted = NoPaint
    /\ prints = 0
    /\ runs = <<>>

PaintNext ==
    \/ WM_SIZE
    \/ WM_PAINT
    \/ WM_COMMAND
    \/ WM_DESTROY

SpecPaint == PaintInit /\ [][PaintNext]_vars

\* C12: the checklist always has exactly 5 alerts in fixed order; the night
\* alert has ok = false exactly when the mean of hours 0..5 (the sum of 6
\* samples over 6) is greater than 0.75 times the 24-hour mean; the
\* extreme-peak alert has ok = false exactly when the greatest hourly value is
\* greater than 2.0 times the mean; the completeness alert is ok exactly when
\* there are 24 samples; the two advisory alerts are always ok.
\* The two means are those of a day of 24 samples; the comparisons are
\* cross-multiplied: s / 6 > (3 / 4) * (t / 24) is 4 * 24 * s > 3 * 6 * t, and
\* some v > 2 * (t / 24) is 24 * v > 2 * t.
C12_ChecklistAlerts ==
    painted.done =>
        LET hk == painted.read.hourlyKWh
            a  == painted.check.alerts
            t  == SumSeq(hk)
        IN  /\ Len(a) = 5
            /\ [i \in 1..5 |-> a[i].text] =
                  <<"Nocni zatez v norme", "Zadna extremni spicka (> 2.0x prumer)",
                    "Krivka bez vypadku (24/24)", "Doporuceni: zkontrolovat HVAC plan",
                    "Doporuceni: audit osvetleni (zony)">>
            /\ a[3].ok <=> Len(hk) = 24
            /\ a[4].ok
            /\ a[5].ok
            /\ Len(hk) = 24 =>
                  /\ ~a[1].ok <=>
                        4 * 24 * (hk[1] + hk[2] + hk[3] + hk[4] + hk[5] + hk[6]) > 3 * 6 * t
                  /\ ~a[2].ok <=> \E i \in 1..24 : 24 * hk[i] > 2 * t

\* a paint of a day of 24 samples whose night mean is above 0.75 of the
\* day's mean and whose peak is not extreme: the night alert alone has failed
C12_Witness ==
    /\ painted.done
    /\ Len(painted.read.hourlyKWh) = 24
    /\ ~painted.check.alerts[1].ok
    /\ painted.check.alerts[2].ok
    /\ painted.check.alerts[3].ok

\* the hours the table lists
TableHours(rows) == {rows[i].hour : i \in 1..Len(rows)}

C13_TopTenDescending ==
    (painted.done /\ Len(painted.read.hourlyKWh) = 24) =>
        LET hk   == painted.read.hourlyKWh
            rows == painted.table.rows
            t    == SumSeq(hk)
        IN  /\ Len(rows) = 10
            /\ Cardinality(TableHours(rows)) = 10
            /\ \A i \in 1..Len(rows) :
                  /\ rows[i].hour \in 0..23
                  /\ rows[i].v = hk[rows[i].hour + 1]
                  /\ rows[i].note = "peak" <=> 2 * 24 * rows[i].v > 3 * t
            /\ \A i \in 1..(Len(rows) - 1) : rows[i].v >= rows[i + 1].v
            /\ \A x \in (0..23) \ TableHours(rows) : \A i \in 1..Len(rows) :
                  hk[x + 1] <= rows[i].v

\* C14: the peak reported by DrawHeader and the peak marked by DrawLineChart
\* are the same hour and value: the maximum of hourlyKWh, at the first
\* (earliest) hour that attains it when several hours tie.
C14_PeakFirstMaximum ==
    painted.done =>
        LET hk == painted.read.hourlyKWh
            hd == painted.header
            ln == painted.line
        IN  /\ hd.peak = ln.peak
            /\ hd.peakHour = ln.peakHour
            /\ hd.peakHour \in 0..(Len(hk) - 1)
            /\ hk[hd.peakHour + 1] = hd.peak
            /\ \A i \in 1..Len(hk) : hk[i] <= hd.peak
            /\ \A i \in 1..hd.peakHour : hk[i] < hd.peak

\* a paint of a day whose maximum is attained at two hours, neither of them
\* hour 0: the header and the chart both report the earlier one
C14_Witness ==
    /\ painted.done
    /\ \E i, j \in 2..Len(painted.read.hourlyKWh) :
          /\ i < j
          /\ painted.read.hourlyKWh[i] = painted.header.peak
          /\ painted.read.hourlyKWh[j] = painted.header.peak
          /\ painted.header.peakHour = i - 1
          /\ painted.line.peakHour = i - 1

-----------------------------------------------------------------------------
(* SpecRuns: simulateEnergyDay called as a whole, several times in one      *)
(* build, each call reading the clock.                                      *)

\* the hourly loop from hour hr on, with the generator's state and the hours
\* filled so far
RECURSIVE HoursFrom(_, _, _)
HoursFrom(hr, state, filled) ==
    IF hr >= LoopEnd THEN filled
    ELSE LET s1    == RngNext(state)
             nz    == NoiseOf(Shr11(s1))
             s2    == RngNext(s1)
             hit   == SpikeBranch(Shr11(s2)) = "size"
             s3    == IF hit THEN RngNext(s2) ELSE s2
             spike == IF hit THEN SpikeOf(Shr11(s3)) ELSE 0
         IN  HoursFrom(hr + 1, s3, [filled EXCEPT ![hr + 1] = HourKWh(hr, nz, spike)])

\* the EnergyDay returned when the generator starts from `seed` and
\* GetLocalTime gives st
SimulateFrom(seed, st, b) ==
    Derive([buildingName |-> "Kancelarska budova A (mensi)",
            date |-> st,
            hourlyKWh |-> HoursFrom(0, SeededRNG(seed, b.shl64), [i \in 1..VecSize |-> 0]),
            topConsumers |-> <<>>,
            categoryBreakdown |-> <<>>,
            priceCZKPerKWh |-> Price],
           b.sort)

\* a simulator that seeds its generator from the time of day
simulateEnergyDaySeededByClock(st, b) == SimulateFrom(U64(st.wHour), st, b)

\* EnergyDay simulateEnergyDay(), in build b, when GetLocalTime gives st
simulateEnergyDay(st, b) == SimulateFrom(Seed, st, b)

\* the runs compared
RunIds == {1, 2}

NotRun == [ran |-> FALSE]

RunsInit ==
    /\ build \in Builds
    /\ seed0 = Seed
    /\ rng = U64(0)
    /\ outs = <<>>
    /\ pc = "runs"
    /\ h = 0
    /\ noise = 0
    /\ day = EmptyDay
    /\ trace = <<>>
    /\ g_day = EmptyDay
    /\ builds = 0
    /\ client = [left |-> 0, top |-> 0, right |-> 0, bottom |-> 0]
    /\ invalid = FALSE
    /\ painted = NoPaint
    /\ prints = 0
    /\ runs = [r \in RunIds |-> NotRun]

\* one run of simulateEnergyDay, at some reading of the clock
Run ==
    /\ pc = "runs"
    /\ \E r \in RunIds, st \in Clocks :
          runs' = [runs EXCEPT ![r] = [ran |-> TRUE, day |-> simulateEnergyDay(st, build)]]
    /\ UNCHANGED <<build, seed0, rng, outs, simVars, day, winVars>>

RunsNext == Run

SpecRuns == RunsInit /\ [][RunsNext]_vars

\* under Spec: the day WM_CREATE builds step by step is the day simulateEnergyDay returns
StepsAgree == Built => g_day = simulateEnergyDay(g_day.date, build)

\* the calendar date of a SYSTEMTIME
DateOf(st) == <<st.wYear, st.wMonth, st.wDay>>

\* C9: the simulation is deterministic: two runs with the same seed and the
\* same date give the same 24 hourly values, the same categories, the same
\* topConsumers and the same price.
C9_Deterministic ==
    \A r1, r2 \in RunIds :
        (runs[r1].ran /\ runs[r2].ran
            /\ DateOf(runs[r1].day.date) = DateOf(runs[r2].day.date))
        => /\ runs[r1].day.hourlyKWh = runs[r2].day.hourlyKWh
           /\ runs[r1].day.categoryBreakdown = runs[r2].day.categoryBreakdown
           /\ runs[r1].day.topConsumers = runs[r2].day.topConsumers
           /\ runs[r1].day.priceCZKPerKWh = runs[r2].day.priceCZKPerKWh

\* two runs on the same date at different times of the day
C9_Witness ==
    /\ runs[1].ran
    /\ runs[2].ran
    /\ DateOf(runs[1].day.date) = DateOf(runs[2].day.date)
    /\ runs[1].day.date # runs[2].day.date
    /\ Len(runs[1].day.hourlyKWh) = 24

-----------------------------------------------------------------------------
(* SpecRng: a SeededRNG constructed from a seed, and next() called on it    *)

\* how many calls of next() a behaviour of SpecRng makes
MaxDraws == 12

AllOnes == [k \in 1..8 |-> 255]

\* the seeds tried: the program's 0xC0FFEE, 0, 1, 42, a seed with only its
\* top bit set, and 2^64 - 1
Seeds == {Seed, U64(0), U64(1), U64(42), <<0, 0, 0, 0, 0, 0, 0, 128>>, AllOnes}

RngInit ==
    /\ build \in {b \in Builds : b.sort = "kept"}
    /\ seed0 \in Seeds
    /\ rng = SeededRNG(seed0, build.shl64)
    /\ outs = <<>>
    /\ pc = "rng"
    /\ h = 0
    /\ noise = 0
    /\ day = EmptyDay
    /\ trace = <<>>
    /\ g_day = EmptyDay
    /\ builds = 0
    /\ client = [left |-> 0, top |-> 0, right |-> 0, bottom |-> 0]
    /\ invalid = FALSE
    /\ painted = NoPaint
    /\ prints = 0
    /\ runs = <<>>

\* one call of rng.next(), its return value kept
CallNext ==
    /\ pc = "rng"
    /\ Len(outs) < MaxDraws
    /\ rng' = RngNext(rng)
    /\ outs' = Append(outs, rng')
    /\ UNCHANGED <<build, seed0, simVars, day, winVars, runs>>

RngNextStep == CallNext

SpecRng == RngInit /\ [][RngNextStep]_vars

----
(* The recurrence computed another way: x * a row by row, by Horner's rule *)
(* over the bytes of a from the top byte down, with 64-bit additions.       *)

RECURSIVE AddFrom(_, _, _, _)
AddFrom(x, y, k, carry) ==
    IF k > 8 THEN <<>>
    ELSE LET s == x[k] + y[k] + carry
         IN  <<s % 256>> \o AddFrom(x, y, k + 1, s \div 256)

Add64(x, y) == AddFrom(x, y, 1, 0)

\* x * m modulo 2^64 for a byte m
RECURSIVE TimesByteFrom(_, _, _, _)
TimesByteFrom(x, m, k, carry) ==
    IF k > 8 THEN <<>>
    ELSE LET s == x[k] * m + carry
         IN  <<s % 256>> \o TimesByteFrom(x, m, k + 1, s \div 256)

\* x * 256 modulo 2^64
Shl8(x) == <<0>> \o SubSeq(x, 1, 7)

\* the sum of x * y[i] * 256^(i - j) over the bytes i >= j of y, modulo 2^64
RECURSIVE Horner(_, _, _)
Horner(x, y, j) ==
    IF j > 8 THEN U64(0)
    ELSE Add64(Shl8(Horner(x, y, j + 1)), TimesByteFrom(x, y[j], 1, 0))

\* (x * 6364136223846793005 + 1) mod 2^64
Recurrence(x) == Add64(Horner(x, LcgA, 1), U64(1))

\* the first four outputs for seed 0xC0FFEE: 0xE06391857E6A0ED7,
\* 0x13BC661B4D2444CC, 0x7D0EB076283D4BDD, 0x85D93AC73F09F8DA
Reference == << <<215, 14, 106, 126, 133, 145, 99, 224>>,
                <<204, 68, 36, 77, 27, 102, 188, 19>>,
                <<221, 75, 61, 40, 118, 176, 14, 125>>,
                <<218, 248, 9, 63, 199, 58, 217, 133>> >>

\* C1 (as claimed): every call of next() replaces the state by
\* (state * 6364136223846793005 + 1) mod 2^64 and returns that state, and the
\* outputs for a seed are the recurrence iterated from that seed; for seed
\* 0xC0FFEE they are the reference values.
C1_OutputsIterateFromSeed ==
    /\ \A i \in 1..Len(outs) :
          outs[i] = Recurrence(IF i = 1 THEN seed0 ELSE outs[i - 1])
    /\ outs # <<>> => rng = outs[Len(outs)]
    /\ seed0 = Seed =>
          \A i \in 1..Len(outs) : i <= Len(Reference) => outs[i] = Reference[i]

\* what holds of next() in every build: each call replaces the state by the
\* recurrence applied to the state before it and returns the new state
C1_EachCallAppliesRecurrence ==
    /\ \A i \in 2..Len(outs) : outs[i] = Recurrence(outs[i - 1])
    /\ outs # <<>> => rng = outs[Len(outs)]
    /\ (seed0 = Seed /\ build.shl64 = U64(0)) =>
          \A i \in 1..Len(outs) : i <= Len(Reference) => outs[i] = Reference[i]

====
